---- MODULE Spec2Model ----
(***************************************************************************)
(* Model of the two batch programs of the repository:                      *)
(*   src/src/data/ingest_data.py        (process_season, weather merge)    *)
(*   src/src/features/build_features.py (FeatureEngineer pipeline)         *)
(*                                                                         *)
(* Conventions for numbers (TLA+ has integers only):                       *)
(*   - a timedelta (Time, LapTime) is a number of milliseconds;            *)
(*     .dt.total_seconds() divides by 1000 (inputs are whole seconds);     *)
(*   - weather readings are integers chosen so that every interpolated     *)
(*     value at a whole second is an integer;                              *)
(*   - FuelMass is kept in tenths of a kilogram (1.7 kg -> 17, 5 -> 50,    *)
(*     2.0 -> 20);                                                         *)
(*   - a median is kept as twice its value (Median2), so the median of an  *)
(*     even number of values is exact;                                     *)
(*   - a missing value (pandas NaN) is the number NaN below, outside the   *)
(*     range of every real value of the model.                             *)
(***************************************************************************)
EXTENDS Integers, Sequences, FiniteSets, TLC

VARIABLES
    \* ---- ingest_data.py: process_season(year)
    year,             \* the argument of process_season
    pc,               \* position in process_season: "loop" | "done" ("idle": not run)
    round_idx,        \* number of rounds of `races` already iterated
    session,          \* the local `session` of the last iteration
    all_season_laps,  \* the list of per-round frames
    log,              \* what each iteration logged after "Processing Round"
    season_df,        \* the value returned by process_season
    \* ---- ingest_data.py: enrich_laps_with_weather called on its own
    epc,              \* "call" | "returned" | "raised" ("idle": not run)
    enriched,         \* the laps it returned
    \* ---- build_features.py: the __main__ pipeline of FeatureEngineer
    raw_store,        \* data/raw: the rows of each f1_laps_<year>.parquet
    fpc,              \* position in the pipeline, "start" to "saved" ("idle": not run)
    df,               \* self.df
    dropped_count,    \* the count logged by encode_physics_features
    removed_count,    \* the count logged by create_target_variable
    processed_store   \* data/processed/f1_training_data.parquet

vars == <<year, pc, round_idx, session, all_season_laps, log, season_df,
          epc, enriched,
          raw_store, fpc, df, dropped_count, removed_count,
          processed_store>>

ingest_vars == <<year, pc, round_idx, session, all_season_laps, log, season_df>>
enrich_vars == <<epc, enriched>>
feature_vars == <<raw_store, fpc, df, dropped_count,
                  removed_count, processed_store>>

(***************************************************************************)
(* Bounds of the model.                                                    *)
(***************************************************************************)
MaxRounds == 2
MaxLaps == 2
MaxWx == 3
MaxRows == 3

NaN == -1

\* YEARS[0], the first season __main__ ingests
SeasonYear == 2022

(***************************************************************************)
(* Generic helpers.                                                        *)
(***************************************************************************)
SeqsUpTo(S, n) == UNION {[1..k -> S] : k \in 0..n}

RECURSIVE Flatten(_)
Flatten(frames) ==
    IF frames = <<>> THEN <<>> ELSE Head(frames) \o Flatten(Tail(frames))

SetMin(S) == CHOOSE x \in S : \A y \in S : x <= y

SetMax(S) == CHOOSE x \in S : \A y \in S : x >= y

\* Series.dt.total_seconds(): NaT gives NaN
total_seconds(td) == IF td = NaN THEN NaN ELSE td \div 1000

(***************************************************************************)
(* numpy.interp(x, xp, fp) as enrich_laps_with_weather calls it: no left,  *)
(* right or period, xp as given (numpy does not sort or check it).         *)
(* For up to 4 sample points numpy finds the interval by the linear search *)
(* below (above 4 it bisects; the bounds stay within 4).                   *)
(***************************************************************************)
RECURSIVE linear_search(_, _, _)
linear_search(key, arr, i) ==
    \* for (i = 1; i < len && key >= arr[i]; ++i);  (arr is 0-based there)
    IF i < Len(arr) /\ key >= arr[i + 1]
    THEN linear_search(key, arr, i + 1)
    ELSE i

\* 0-based index j with arr[j] <= key < arr[j+1]; -1 below arr[0], len above arr[len-1]
binary_search_with_guess(key, arr) ==
    IF key > arr[Len(arr)] THEN Len(arr)
    ELSE IF key < arr[1] THEN -1
    ELSE linear_search(key, arr, 1) - 1

np_interp(x, xp, fp) ==
    LET n == Len(xp)
        j == binary_search_with_guess(x, xp)
    IN  IF n = 1 THEN fp[1]
        ELSE IF j = -1 THEN fp[1]
        ELSE IF j = n THEN fp[n]
        ELSE IF j = n - 1 THEN fp[n]
        ELSE IF xp[j + 1] = x THEN fp[j + 1]
        ELSE fp[j + 1]
             + ((fp[j + 2] - fp[j + 1]) * (x - xp[j + 1])) \div (xp[j + 2] - xp[j + 1])

weather_cols == <<"AirTemp", "TrackTemp", "Humidity", "Rainfall">>

Column(table, col) == [i \in DOMAIN table |-> table[i][col]]

TimeSecOf(table) == [i \in DOMAIN table |-> total_seconds(table[i].Time)]

(***************************************************************************)
(* enrich_laps_with_weather(session): returns session.laps, every lap of   *)
(* the session, with TimeSec and the four interpolated columns.            *)
(* np.interp raises ValueError on an empty xp.                             *)
(***************************************************************************)
enrich_laps_with_weather(s) ==
    LET laps == s.laps
        weather == s.weather_data
        wt == TimeSecOf(weather)
    IN  IF Len(weather) = 0
        THEN [raised |-> TRUE, laps |-> <<>>]
        ELSE [raised |-> FALSE,
              laps |-> [i \in DOMAIN laps |->
                  [LapNumber |-> laps[i].LapNumber,
                   Time |-> laps[i].Time,
                   IsAccurate |-> laps[i].IsAccurate,
                   PitLap |-> laps[i].PitLap,
                   LapTime |-> laps[i].LapTime,
                   TimeSec |-> total_seconds(laps[i].Time),
                   AirTemp |-> np_interp(total_seconds(laps[i].Time), wt,
                                         Column(weather, "AirTemp")),
                   TrackTemp |-> np_interp(total_seconds(laps[i].Time), wt,
                                           Column(weather, "TrackTemp")),
                   Humidity |-> np_interp(total_seconds(laps[i].Time), wt,
                                          Column(weather, "Humidity")),
                   Rainfall |-> np_interp(total_seconds(laps[i].Time), wt,
                                          Column(weather, "Rainfall"))]]]

(***************************************************************************)
(* Inputs: what the data source can return for one session.                *)
(***************************************************************************)
\* One weather sample; the four channels move differently with the reading r.
WeatherSample(t, r) ==
    [Time |-> t,
     AirTemp |-> 20 + 4 * r,
     TrackTemp |-> 32 + 8 * r,
     Humidity |-> 60 - 4 * r,
     Rainfall |-> IF r = 2 THEN 4 ELSE 0]

Lap(n, t, acc, pit, lt) ==
    [LapNumber |-> n, Time |-> t, IsAccurate |-> acc, PitLap |-> pit, LapTime |-> lt]

\* Lap tables: LapNumber is the position in the session
LapTables(times, accs, pits, lts, n) ==
    {[i \in DOMAIN a |-> Lap(i, a[i][1], a[i][2], a[i][3], a[i][4])] :
        a \in SeqsUpTo(times \X accs \X pits \X lts, n)}

Session(ok, laps, weather) ==
    [load_ok |-> ok, laps |-> laps, weather_data |-> weather]

NoSession == Session(FALSE, <<>>, <<>>)

EnrichWxTimes == {1000, 3000, 5000}
EnrichReadings == {0, 1, 2}
EnrichLapTimes == {0, 1000, 2000, 3000, 4000, 5000, 6000}

EnrichSessions ==
    {Session(TRUE, <<Lap(1, t, TRUE, FALSE, 90000)>>, w) :
        t \in EnrichLapTimes,
        w \in SeqsUpTo({WeatherSample(wt, r) : wt \in EnrichWxTimes, r \in EnrichReadings},
                       MaxWx)}

IngestLapTimes == {3000}
IngestLapDurations == {90000}
\* an empty series, one sample, or two samples around the laps' end time
IngestWeather ==
    {<<>>, <<WeatherSample(1000, 0)>>,
     <<WeatherSample(1000, 0), WeatherSample(5000, 2)>>}

IngestSessions ==
    {NoSession} \cup
    {Session(TRUE, laps, w) :
        laps \in LapTables(IngestLapTimes, BOOLEAN, BOOLEAN, IngestLapDurations, MaxLaps),
        w \in IngestWeather}

\* race['EventName'] and race['Location'] of the schedule's round rn
EventNames == <<"Bahrain", "Jeddah", "Melbourne", "Imola">>
EventNameOf(rn) == EventNames[((rn - 1) % Len(EventNames)) + 1]

(***************************************************************************)
(* process_season(year): one iteration of `for _, race in races.iterrows()` *)
(***************************************************************************)
\* Laps.pick_accurate(): the laps flagged IsAccurate
pick_accurate(laps) == SelectSeq(laps, LAMBDA l : l.IsAccurate)

\* Laps.pick_wo_box(): the laps that are neither in-laps nor out-laps
pick_wo_box(laps) == SelectSeq(laps, LAMBDA l : ~l.PitLap)

\* steps 3 and 4 of the loop body: the context columns, then keep_cols
\* (PitLap stands for PitOutTime and PitInTime; TimeSec and IsAccurate are
\* not in keep_cols)
select_columns(l, rn, yr) ==
    [LapNumber |-> l.LapNumber,
     LapTime |-> l.LapTime,
     PitLap |-> l.PitLap,
     Year |-> yr,
     RoundNumber |-> rn,
     EventName |-> EventNameOf(rn),
     AirTemp |-> l.AirTemp,
     TrackTemp |-> l.TrackTemp,
     Humidity |-> l.Humidity,
     Rainfall |-> l.Rainfall]

\* The try block: what the iteration logs ("ok": nothing more) and the frame
\* it appends.
try_round(s, rn, yr) ==
    IF ~s.load_ok
    THEN [status |-> "ERROR", frame |-> <<>>]
    ELSE LET clean_laps == pick_wo_box(pick_accurate(s.laps))
         IN  IF clean_laps = <<>>
             THEN [status |-> "WARNING", frame |-> <<>>]
             ELSE LET e == enrich_laps_with_weather(s)
                  IN  IF e.raised
                      THEN [status |-> "ERROR", frame |-> <<>>]
                      ELSE [status |-> "ok",
                            frame |-> [i \in DOMAIN e.laps |->
                                          select_columns(e.laps[i], rn, yr)]]

\* mutant of after_round: the handler of a skipped round resets the list
after_round_resets(all, r) ==
    IF r.status = "ok" THEN Append(all, r.frame) ELSE <<>>

\* all_season_laps after the iteration: append, or `continue`
after_round(all, r) ==
    IF r.status = "ok" THEN Append(all, r.frame) ELSE all

\* logging of one iteration
round_log(rn, r) ==
    <<[level |-> "INFO", round |-> rn]>> \o
    (IF r.status = "ok" THEN <<>> ELSE <<[level |-> r.status, round |-> rn]>>)

NoResult == [is_none |-> TRUE, rows |-> <<>>]

with_lap_time_seconds(row) ==
    [LapNumber |-> row.LapNumber,
     LapTime |-> row.LapTime,
     PitLap |-> row.PitLap,
     Year |-> row.Year,
     RoundNumber |-> row.RoundNumber,
     EventName |-> row.EventName,
     AirTemp |-> row.AirTemp,
     TrackTemp |-> row.TrackTemp,
     Humidity |-> row.Humidity,
     Rainfall |-> row.Rainfall,
     LapTimeSeconds |-> total_seconds(row.LapTime)]

\* mutant of season_result: no `if not all_season_laps: return None`
season_result_unguarded(all) ==
    LET rows == Flatten(all)
    IN  [is_none |-> FALSE,
         rows |-> [i \in DOMAIN rows |-> with_lap_time_seconds(rows[i])]]

\* the end of process_season: None, or the concatenation with LapTimeSeconds
season_result(all) ==
    IF all = <<>>
    THEN NoResult
    ELSE LET rows == Flatten(all)
         IN  [is_none |-> FALSE,
              rows |-> [i \in DOMAIN rows |-> with_lap_time_seconds(rows[i])]]

IngestInit ==
    /\ year = SeasonYear
    /\ pc = "loop"
    /\ round_idx = 0
    /\ session = NoSession
    /\ all_season_laps = <<>>
    /\ log = <<>>
    /\ season_df = NoResult
    /\ epc = "idle"
    /\ enriched = <<>>
    /\ raw_store = <<>>
    /\ fpc = "idle"
    /\ df = <<>>
    /\ dropped_count = 0
    /\ removed_count = 0
    /\ processed_store = <<>>

\* one iteration of the loop, on the session the data source returns
ProcessRound ==
    /\ pc = "loop"
    /\ round_idx < MaxRounds
    /\ \E s \in IngestSessions :
         LET r == try_round(s, round_idx + 1, year)
         IN  /\ session' = s
             /\ all_season_laps' = after_round(all_season_laps, r)
             /\ log' = log \o round_log(round_idx + 1, r)
    /\ round_idx' = round_idx + 1
    /\ UNCHANGED <<year, pc, season_df, enrich_vars, feature_vars>>

\* the schedule is exhausted: lines 104-113
Return ==
    /\ pc = "loop"
    /\ season_df' = season_result(all_season_laps)
    /\ pc' = "done"
    /\ UNCHANGED <<year, round_idx, session, all_season_laps, log,
                   enrich_vars, feature_vars>>

IngestNext == ProcessRound \/ Return

SpecIngest == IngestInit /\ [][IngestNext]_vars

(***************************************************************************)
(* enrich_laps_with_weather called on one session.                         *)
(***************************************************************************)
EnrichInit ==
    /\ year = SeasonYear
    /\ pc = "idle"
    /\ round_idx = 0
    /\ session \in EnrichSessions
    /\ all_season_laps = <<>>
    /\ log = <<>>
    /\ season_df = NoResult
    /\ epc = "call"
    /\ enriched = <<>>
    /\ raw_store = <<>>
    /\ fpc = "idle"
    /\ df = <<>>
    /\ dropped_count = 0
    /\ removed_count = 0
    /\ processed_store = <<>>

EnrichReturns ==
    /\ epc = "call"
    /\ ~enrich_laps_with_weather(session).raised
    /\ enriched' = enrich_laps_with_weather(session).laps
    /\ epc' = "returned"
    /\ UNCHANGED <<ingest_vars, feature_vars>>

EnrichRaises ==
    /\ epc = "call"
    /\ enrich_laps_with_weather(session).raised
    /\ enriched' = <<>>
    /\ epc' = "raised"
    /\ UNCHANGED <<ingest_vars, feature_vars>>

EnrichNext == EnrichReturns \/ EnrichRaises

SpecEnrich == EnrichInit /\ [][EnrichNext]_vars

(***************************************************************************)
(* build_features.py: FeatureEngineer.                                     *)
(***************************************************************************)
DefaultTotalLaps == 55
BurnRateTenths == 17
SafetyMarginTenths == 50
MinFuelTenths == 20

GroupOf(row) == <<row.Year, row.EventName>>

Groups(d) == {GroupOf(d[i]) : i \in DOMAIN d}

RowsOfGroup(d, g) == SelectSeq(d, LAMBDA row : GroupOf(row) = g)

\* Series.dropna()
DropNa(values) == SelectSeq(values, LAMBDA v : v # NaN)

RECURSIVE InsertSorted(_, _)
InsertSorted(v, sorted) ==
    IF sorted = <<>> THEN <<v>>
    ELSE IF v <= Head(sorted) THEN <<v>> \o sorted
    ELSE <<Head(sorted)>> \o InsertSorted(v, Tail(sorted))

RECURSIVE SortValues(_)
SortValues(values) ==
    IF values = <<>> THEN <<>>
    ELSE InsertSorted(Head(values), SortValues(Tail(values)))

\* twice Series.median(): missing values skipped, NaN for no value at all,
\* the middle value or the mean of the two middle ones
Median2(values) ==
    LET sorted == SortValues(DropNa(values))
        n == Len(sorted)
    IN  IF n = 0 THEN NaN
        ELSE sorted[(n + 1) \div 2] + sorted[(n \div 2) + 1]

\* pd.concat(dfs, ignore_index=True) of the files in the order os.listdir gave
ConcatFiles(files, order) ==
    Flatten([i \in DOMAIN order |-> files[order[i]]])

ListdirOrders(files) ==
    {o \in [DOMAIN files -> DOMAIN files] :
        \A i, k \in DOMAIN files : i # k => o[i] # o[k]}

\* mutant of race_lengths: one maximum for the whole table
race_lengths_global(d) ==
    [g \in Groups(d) |-> SetMax({d[i].LapNumber : i \in DOMAIN d})]

\* df.groupby(['Year', 'EventName'])['LapNumber'].max().to_dict()
race_lengths(d) ==
    [g \in Groups(d) |->
        SetMax({d[i].LapNumber : i \in {k \in DOMAIN d : GroupOf(d[k]) = g}})]

get_fuel(row, lengths) ==
    LET total_laps == IF GroupOf(row) \in DOMAIN lengths
                      THEN lengths[GroupOf(row)]
                      ELSE DefaultTotalLaps
        laps_remaining == total_laps - row.LapNumber
    IN  (laps_remaining * BurnRateTenths) + SafetyMarginTenths

\* Series.clip(lower=...)
clip_lower(v, lower) == IF v < lower THEN lower ELSE v

calculate_fuel_mass(d) ==
    [i \in DOMAIN d |->
        d[i] @@ ("FuelMass" :> clip_lower(get_fuel(d[i], race_lengths(d)), MinFuelTenths))]

\* Series.map(compound_map): NaN for a compound that is no key of the map
compound_map(c) ==
    CASE c = "HARD" -> 1
      [] c = "MEDIUM" -> 2
      [] c = "SOFT" -> 3
      [] c = "INTERMEDIATE" -> 0
      [] c = "WET" -> 0
      [] OTHER -> NaN

\* mutant of is_dry: >= 0 keeps the wet and intermediate laps
is_dry_or_zero(softness) == softness # NaN /\ softness >= 0

\* df['Compound_Softness'] > 0 (False for NaN)
is_dry(softness) == softness # NaN /\ softness > 0

with_softness(d) ==
    [i \in DOMAIN d |-> d[i] @@ ("Compound_Softness" :> compound_map(d[i].Compound))]

dry_rows(d) == SelectSeq(with_softness(d), LAMBDA row : is_dry(row.Compound_Softness))

\* x.fillna(x.median()) within the row's group
filled_track_temp(d, row) ==
    IF row.TrackTemp # NaN THEN row.TrackTemp
    ELSE LET m2 == Median2(Column(RowsOfGroup(d, GroupOf(row)), "TrackTemp"))
         IN  IF m2 = NaN THEN NaN ELSE m2 \div 2

\* the table encode_physics_features leaves in self.df
encode_physics_features(d) ==
    LET kept == dry_rows(d)
    IN  [i \in DOMAIN kept |->
            [Year |-> kept[i].Year,
             EventName |-> kept[i].EventName,
             LapNumber |-> kept[i].LapNumber,
             Compound |-> kept[i].Compound,
             LapTimeSeconds |-> kept[i].LapTimeSeconds,
             TyreLife |-> kept[i].TyreLife,
             FuelMass |-> kept[i].FuelMass,
             Compound_Softness |-> kept[i].Compound_Softness,
             TyreAge |-> IF kept[i].TyreLife = NaN THEN 1 ELSE kept[i].TyreLife,
             TrackTemp |-> filled_track_temp(kept, kept[i])]]

\* df.groupby(['Year', 'EventName'])['LapTimeSeconds'].median(), doubled
race_medians(d) ==
    [g \in Groups(d) |-> Median2(Column(RowsOfGroup(d, g), "LapTimeSeconds"))]

\* mutant of is_outlier: >= instead of >
is_outlier_or_equal(row, medians) ==
    LET median_pace2 == medians[GroupOf(row)]
    IN  /\ row.LapTimeSeconds # NaN
        /\ median_pace2 # NaN
        /\ 10 * row.LapTimeSeconds >= 6 * median_pace2

\* mutant of is_outlier: the threshold at 150% of the median
is_outlier_lenient(row, medians) ==
    LET median_pace2 == medians[GroupOf(row)]
    IN  /\ row.LapTimeSeconds # NaN
        /\ median_pace2 # NaN
        /\ 10 * row.LapTimeSeconds > 8 * median_pace2

\* row['LapTimeSeconds'] > median_pace * 1.20 (False when either is NaN);
\* with the doubled median: 10 * x > 6 * (2 * median)
is_outlier(row, medians) ==
    LET median_pace2 == medians[GroupOf(row)]
    IN  /\ row.LapTimeSeconds # NaN
        /\ median_pace2 # NaN
        /\ 10 * row.LapTimeSeconds > 6 * median_pace2

create_target_variable(d) ==
    SelectSeq(d, LAMBDA row : ~is_outlier(row, race_medians(d)))

\* outliers.sum()
outliers_sum(d) == Len(SelectSeq(d, LAMBDA row : is_outlier(row, race_medians(d))))

(***************************************************************************)
(* Inputs of the pipeline: the files ingest_data.py wrote, one per year,   *)
(* each with at least one row, all of that year.                           *)
(***************************************************************************)
RawRow(y, e, n, c, t, life, temp) ==
    [Year |-> y, EventName |-> e, LapNumber |-> n, Compound |-> c,
     LapTimeSeconds |-> t, TyreLife |-> life, TrackTemp |-> temp]

RawRows(ys, es, ns, cs, ts, lifes, temps) ==
    {RawRow(y, e, n, c, t, life, temp) :
        y \in ys, e \in es, n \in ns, c \in cs, t \in ts, life \in lifes, temp \in temps}

\* several races of different lengths
FuelRows ==
    RawRows({2022}, {"Bahrain", "Jeddah"}, {1, 2, 3}, {"HARD"}, {2}, {3}, {300})

\* every compound of the map, an unknown one and a missing one
CompoundRows ==
    RawRows({2022}, {"Bahrain"}, {1},
            {"HARD", "MEDIUM", "SOFT", "INTERMEDIATE", "WET", "UNKNOWN", "None"},
            {2}, {3}, {300})

\* missing tyre life and track temperature
ImputeRows ==
    RawRows({2022}, {"Bahrain"}, {1}, {"HARD", "WET"}, {2}, {NaN, 3}, {NaN, 300, 400})

\* lap times, missing ones too, of dry and wet laps in two seasons
TargetRows ==
    RawRows({2022, 2023}, {"Bahrain"}, {1}, {"HARD", "WET"}, {NaN, 1, 2, 3}, {3}, {300})

RawTables ==
    SeqsUpTo(FuelRows, MaxRows) \cup SeqsUpTo(CompoundRows, MaxRows)
        \cup SeqsUpTo(ImputeRows, MaxRows) \cup SeqsUpTo(TargetRows, MaxRows)

FileOfYear(t, y) == SelectSeq(t, LAMBDA row : row.Year = y)

\* the files of data/raw that hold the rows of t
FilesOf(t) ==
    SelectSeq(<<FileOfYear(t, 2022), FileOfYear(t, 2023)>>, LAMBDA f : f # <<>>)

FeatureInit ==
    /\ year = SeasonYear
    /\ pc = "idle"
    /\ round_idx = 0
    /\ session = NoSession
    /\ all_season_laps = <<>>
    /\ log = <<>>
    /\ season_df = NoResult
    /\ epc = "idle"
    /\ enriched = <<>>
    /\ raw_store \in {FilesOf(t) : t \in RawTables}
    /\ fpc = "start"
    /\ df = <<>>
    /\ dropped_count = 0
    /\ removed_count = 0
    /\ processed_store = <<>>

\* load_raw_data on a directory without parquet files: FileNotFoundError
LoadRawDataFails ==
    /\ fpc = "start"
    /\ raw_store = <<>>
    /\ fpc' = "no_input"
    /\ UNCHANGED <<raw_store, df, dropped_count, removed_count, processed_store,
                   ingest_vars, enrich_vars>>

LoadRawData ==
    /\ fpc = "start"
    /\ raw_store # <<>>
    /\ \E order \in ListdirOrders(raw_store) : df' = ConcatFiles(raw_store, order)
    /\ fpc' = "loaded"
    /\ UNCHANGED <<raw_store, dropped_count, removed_count, processed_store,
                   ingest_vars, enrich_vars>>

CalculateFuelMass ==
    /\ fpc = "loaded"
    /\ df' = calculate_fuel_mass(df)
    /\ fpc' = "fuel"
    /\ UNCHANGED <<raw_store, dropped_count, removed_count, processed_store,
                   ingest_vars, enrich_vars>>

EncodePhysicsFeatures ==
    /\ fpc = "fuel"
    /\ df' = encode_physics_features(df)
    /\ dropped_count' = Len(df) - Len(dry_rows(df))
    /\ fpc' = "encoded"
    /\ UNCHANGED <<raw_store, removed_count, processed_store,
                   ingest_vars, enrich_vars>>

\* (on a table without rows DataFrame.apply returns an empty frame, the
\* selection keeps the empty table and the logged sum is of nothing)
CreateTargetVariable ==
    /\ fpc = "encoded"
    /\ df' = create_target_variable(df)
    /\ removed_count' = outliers_sum(df)
    /\ fpc' = "targeted"
    /\ UNCHANGED <<raw_store, dropped_count, processed_store,
                   ingest_vars, enrich_vars>>

SaveProcessedData ==
    /\ fpc = "targeted"
    /\ processed_store' = df
    /\ fpc' = "saved"
    /\ UNCHANGED <<raw_store, df, dropped_count, removed_count,
                   ingest_vars, enrich_vars>>

FeatureNext ==
    \/ LoadRawDataFails
    \/ LoadRawData
    \/ CalculateFuelMass
    \/ EncodePhysicsFeatures
    \/ CreateTargetVariable
    \/ SaveProcessedData

SpecFeatures == FeatureInit /\ [][FeatureNext]_vars

(***************************************************************************)
(* Claims about process_season (SpecIngest).                               *)
(***************************************************************************)
IsCleanLap(l) == l.IsAccurate /\ ~l.PitLap

HasCleanLap(laps) == \E i \in DOMAIN laps : IsCleanLap(laps[i])

RoundLogged(lg, rn, level) ==
    \E i \in DOMAIN lg : lg[i] = [level |-> level, round |-> rn]

RowsOfRound(rows, rn) == SelectSeq(rows, LAMBDA row : row.RoundNumber = rn)

RowKeys(rows) == [i \in DOMAIN rows |-> <<rows[i].RoundNumber, rows[i].LapNumber>>]

\* C1: every lap of a successfully processed round that is in the returned
\* season table passed both filters (accurate, and not an in-lap or out-lap).
\* Stated for the last round, whose session is still at hand.
C1_OnlyFilteredLaps ==
    (pc = "done" /\ ~season_df.is_none) =>
        \A i \in DOMAIN season_df.rows :
            season_df.rows[i].RoundNumber = round_idx =>
                IsCleanLap(session.laps[season_df.rows[i].LapNumber])

\* C2: a round that fails contributes no rows, the loop goes on, the frames
\* collected so far stay as they are; a round that neither failed nor was
\* empty after filtering appends its (non-empty) frame at the end; and the
\* returned table is the concatenation of the frames in that order.
C2_FailureIsolation ==
    [][ /\ (round_idx' = round_idx + 1) =>
            /\ pc' = "loop"
            /\ IF \/ RoundLogged(log', round_idx', "ERROR")
                  \/ ~HasCleanLap(session'.laps)
               THEN all_season_laps' = all_season_laps
               ELSE /\ Len(all_season_laps') = Len(all_season_laps) + 1
                    /\ SubSeq(all_season_laps', 1, Len(all_season_laps)) = all_season_laps
                    /\ all_season_laps'[Len(all_season_laps')] # <<>>
                    /\ \A i \in DOMAIN all_season_laps'[Len(all_season_laps')] :
                          all_season_laps'[Len(all_season_laps')][i].RoundNumber = round_idx'
        /\ (pc = "loop" /\ pc' = "done") =>
            RowKeys(season_df'.rows) = RowKeys(Flatten(all_season_laps))
      ]_vars

\* C2 witness: a failed round after a round that contributed, whose rows are
\* in the returned table.
C2_Witness ==
    /\ pc = "done"
    /\ round_idx = 2
    /\ ~RoundLogged(log, 1, "ERROR") /\ ~RoundLogged(log, 1, "WARNING")
    /\ RoundLogged(log, 2, "ERROR")
    /\ session.load_ok
    /\ RowsOfRound(season_df.rows, 1) # <<>>
    /\ RowsOfRound(season_df.rows, 2) = <<>>

\* C3: process_season returns None exactly when every round failed or had no
\* clean lap, and a returned table has at least one row.
C3_NoneIffNoData ==
    pc = "done" =>
        /\ season_df.is_none <=>
              \A rn \in 1..round_idx :
                  RoundLogged(log, rn, "ERROR") \/ RoundLogged(log, rn, "WARNING")
        /\ ~season_df.is_none => Len(season_df.rows) >= 1

\* C3 witness: a season of one failed round and one round without clean laps
C3_Witness ==
    /\ pc = "done"
    /\ season_df.is_none
    /\ \E a, b \in 1..round_idx :
          RoundLogged(log, a, "ERROR") /\ RoundLogged(log, b, "WARNING")

\* C5: with fewer than 2 weather samples the round's laps are still in the
\* season table, with the single sample's value on each channel, or a
\* missing-value sentinel when the series is empty.
C5_SparseWeatherEnriched ==
    (/\ round_idx >= 1
     /\ session.load_ok
     /\ HasCleanLap(session.laps)
     /\ Len(session.weather_data) < 2) =>
        LET rows == RowsOfRound(Flatten(all_season_laps), round_idx)
        IN  /\ rows # <<>>
            /\ \A i \in DOMAIN rows : \A c \in DOMAIN weather_cols :
                  rows[i][weather_cols[c]] =
                      IF Len(session.weather_data) = 1
                      THEN session.weather_data[1][weather_cols[c]]
                      ELSE NaN

(***************************************************************************)
(* Claims about enrich_laps_with_weather (SpecEnrich).                     *)
(***************************************************************************)
SampleTimes(weather) == {total_seconds(weather[i].Time) : i \in DOMAIN weather}

ValuesAt(weather, col, t) ==
    {weather[i][col] : i \in {k \in DOMAIN weather : total_seconds(weather[k].Time) = t}}

\* The values the piecewise-linear interpolation of the samples sorted by time
\* can take at t (several only where samples tie in time): clamped to the
\* earliest and latest samples outside their range.
PiecewiseLinear(weather, col, t) ==
    LET ts == SampleTimes(weather)
    IN  IF t <= SetMin(ts) THEN ValuesAt(weather, col, SetMin(ts))
        ELSE IF t >= SetMax(ts) THEN ValuesAt(weather, col, SetMax(ts))
        ELSE IF t \in ts THEN ValuesAt(weather, col, t)
        ELSE LET lo == SetMax({u \in ts : u < t})
                 hi == SetMin({u \in ts : u > t})
             IN  {a + ((b - a) * (t - lo)) \div (hi - lo) :
                     a \in ValuesAt(weather, col, lo),
                     b \in ValuesAt(weather, col, hi)}

IsTimeSorted(weather) ==
    \A i, k \in DOMAIN weather : i < k => weather[i].Time <= weather[k].Time

\* C4: for a series of at least 2 samples, in whatever order they come, every
\* lap gets on each channel the piecewise-linear interpolation, at its end
\* time, of the samples sorted by time.
C4_InterpolatesInAnyOrder ==
    (epc = "returned" /\ Len(session.weather_data) >= 2) =>
        \A i \in DOMAIN enriched : \A c \in DOMAIN weather_cols :
            enriched[i][weather_cols[c]] \in
                PiecewiseLinear(session.weather_data, weather_cols[c], enriched[i].TimeSec)

\* The same for the series the data source delivers in time order.
InterpolatesTimeSorted ==
    (epc = "returned" /\ Len(session.weather_data) >= 2
        /\ IsTimeSorted(session.weather_data)) =>
        \A i \in DOMAIN enriched : \A c \in DOMAIN weather_cols :
            enriched[i][weather_cols[c]] \in
                PiecewiseLinear(session.weather_data, weather_cols[c], enriched[i].TimeSec)

(***************************************************************************)
(* Claims about the FeatureEngineer pipeline (SpecFeatures).               *)
(***************************************************************************)
\* the k-th smallest of a non-empty sequence of values, by counting
KthSmallest(values, k) ==
    CHOOSE v \in {values[i] : i \in DOMAIN values} :
        /\ Cardinality({i \in DOMAIN values : values[i] < v}) < k
        /\ Cardinality({i \in DOMAIN values : values[i] <= v}) >= k

\* twice the median of the non-missing LapTimeSeconds of group g of table d
GroupMedian2(d, g) ==
    LET present == SelectSeq(Column(RowsOfGroup(d, g), "LapTimeSeconds"),
                             LAMBDA v : v # NaN)
        n == Len(present)
    IN  IF n = 0 THEN NaN
        ELSE KthSmallest(present, (n + 1) \div 2) + KthSmallest(present, (n \div 2) + 1)

\* LapTimeSeconds strictly greater than 1.20 times the median of the row's
\* group in table d
SlowerThanGroup(row, d) ==
    /\ row.LapTimeSeconds # NaN
    /\ GroupMedian2(d, GroupOf(row)) # NaN
    /\ 10 * row.LapTimeSeconds > 6 * GroupMedian2(d, GroupOf(row))

RawColumns(row) ==
    <<row.Year, row.EventName, row.LapNumber, row.Compound, row.LapTimeSeconds,
      row.TyreLife, row.TrackTemp>>

GroupTotal(d, g) ==
    SetMax({d[k].LapNumber : k \in {i \in DOMAIN d : GroupOf(d[i]) = g}})

FuelFormula(T, L) ==
    IF (T - L) * 17 + 50 > 20 THEN (T - L) * 17 + 50 ELSE 20

\* C6: calculate_fuel_mass gives every row FuelMass = max((T - L) * 1.7 + 5, 2.0)
\* (in tenths of a kilogram), T the largest lap number of the row's
\* (Year, EventName) group, and changes nothing else.
C6_FuelMass ==
    [][ (fpc = "loaded" /\ fpc' = "fuel") =>
            /\ Len(df') = Len(df)
            /\ \A i \in DOMAIN df :
                  /\ RawColumns(df'[i]) = RawColumns(df[i])
                  /\ DOMAIN df'[i] = DOMAIN df[i] \cup {"FuelMass"}
                  /\ df'[i].FuelMass =
                        FuelFormula(GroupTotal(df, GroupOf(df[i])), df[i].LapNumber)
      ]_vars

\* C6 witness: two races of different lengths, a row two laps before the end
\* of the longer one
C6_Witness ==
    /\ fpc = "fuel"
    /\ \E i, k \in DOMAIN df :
          /\ GroupOf(df[i]) # GroupOf(df[k])
          /\ GroupTotal(df, GroupOf(df[i])) = 3
          /\ GroupTotal(df, GroupOf(df[k])) = 1
          /\ df[i].LapNumber = 1
          /\ df[i].FuelMass = 84
          /\ df[k].FuelMass = 50

IsSlick(c) == c \in {"HARD", "MEDIUM", "SOFT"}

SoftnessOf(c) == IF c = "HARD" THEN 1 ELSE IF c = "MEDIUM" THEN 2 ELSE 3

BeforeEncoding(row) ==
    <<row.Year, row.EventName, row.LapNumber, row.Compound, row.LapTimeSeconds,
      row.TyreLife, row.FuelMass>>

\* encode_physics_features keeps exactly the HARD, MEDIUM and SOFT rows, in
\* order, with softness 1, 2, 3
KeepsExactlySlicks ==
    LET slicks == SelectSeq(df, LAMBDA row : IsSlick(row.Compound))
    IN  /\ Len(df') = Len(slicks)
        /\ \A i \in DOMAIN slicks :
              /\ BeforeEncoding(df'[i]) = BeforeEncoding(slicks[i])
              /\ df'[i].Compound_Softness = SoftnessOf(slicks[i].Compound)

\* C7 as stated: the reported count is the number of WET and INTERMEDIATE rows
C7_CountsWetAndIntermediate ==
    [][ (fpc = "fuel" /\ fpc' = "encoded") =>
            /\ KeepsExactlySlicks
            /\ dropped_count' =
                  Len(SelectSeq(df, LAMBDA row : row.Compound \in {"WET", "INTERMEDIATE"}))
      ]_vars

\* C7 amended: encode_physics_features keeps exactly the HARD, MEDIUM and SOFT
\* rows and reports the number of all other rows: WET, INTERMEDIATE, unknown
\* and missing compounds alike.
C7_CountsEveryDroppedRow ==
    [][ (fpc = "fuel" /\ fpc' = "encoded") =>
            /\ KeepsExactlySlicks
            /\ dropped_count' = Len(SelectSeq(df, LAMBDA row : ~IsSlick(row.Compound)))
      ]_vars

\* C7 witness: a table with a slick, a wet and an unknown compound, encoded
C7_Witness ==
    /\ fpc = "encoded"
    /\ raw_store # <<>>
    /\ {"HARD", "WET", "UNKNOWN"} \subseteq
          {raw_store[1][i].Compound : i \in DOMAIN raw_store[1]}
    /\ dropped_count = 2
    /\ Len(df) = 1

C9_OutputRowsComplete ==
    fpc = "saved" =>
        \A i \in DOMAIN processed_store :
            /\ processed_store[i].LapTimeSeconds # NaN
            /\ processed_store[i].Compound_Softness > 0

\* C10 as stated, for the rows that have a lap time: in the final table no row
\* is slower than 1.20 times the median of its group in that final table.
C10_WithinFinalMedian ==
    fpc = "saved" =>
        \A i \in DOMAIN processed_store :
            ~SlowerThanGroup(processed_store[i], processed_store)

\* C10 amended: no row of the final table is slower than 1.20 times the median
\* of its group taken over the rows present when create_target_variable
\* started; the table written is the one that step left.
C10_WithinStartMedian ==
    [][ /\ (fpc = "encoded" /\ fpc' = "targeted") =>
            \A i \in DOMAIN df' : ~SlowerThanGroup(df'[i], df)
        /\ (fpc = "targeted" /\ fpc' = "saved") => processed_store' = df
      ]_vars

\* C10 witness: a final table with a row above 1.20 times the median of what
\* is left of its group
C10_Witness ==
    /\ fpc = "saved"
    /\ \E i \in DOMAIN processed_store :
          SlowerThanGroup(processed_store[i], processed_store)

====
